---------------------------- MODULE Spec2Model ----------------------------
(***************************************************************************)
(* Model of the obsidian-url-preview plugin (LinkPreviewPlugin).           *)
(*                                                                         *)
(* Spec       : the hover / preview-panel life cycle: the plugin's fields, *)
(*              the browser's timer table, the panels attached to the      *)
(*              document, the mouseleave listeners the plugin left on link *)
(*              elements, and the user's pointer and modifier key.         *)
(* SpecLoad   : the same life cycle with the load events of the embedded  *)
(*              view (iframe onload, its delayed callback, onerror).       *)
(* SpecBounds : calculatePreviewBounds applied to anchors and viewports.   *)
(* SpecNormalize  : normalizeUrl applied to candidate strings, then to its *)
(*              own results.                                               *)
(* SpecEditorText : getUrlFromEditorByText applied to documents and the    *)
(*              rendered text of a hovered element.                        *)
(* SpecLocate : findLinkElement and extractUrlFromElement applied to       *)
(*              chains of elements, in reading view and in the editor.     *)
(* SpecSettings   : the edits of the settings page and their saves.        *)
(*                                                                         *)
(* Time is counted in milliseconds.  Tick lets time pass up to the next    *)
(* timer deadline; a due timer runs before time passes again, and due      *)
(* timers run in the order they were armed (HTML timer ordering).  Input   *)
(* events may arrive at any instant.                                       *)
(***************************************************************************)
EXTENDS Integers, Sequences, FiniteSets, TLC

VARIABLES
    settings,        \* this.settings (changed by SpecSettings only)
    activePreview,   \* this.activePreview: {element, cleanup, link} or undefined
    hoverTimeout,    \* this.hoverTimeout: a timer id, 0 for undefined
    cleanupTimeout,  \* this.cleanupTimeout: a timer id, 0 for undefined
    lastMouse,       \* (this.lastMouseX, this.lastMouseY): the place they lie in
    timers,          \* the browser's pending timeouts, in arming order
    domPanels,       \* the .hover-popup elements attached to document.body
    frames,          \* the iframe and loading indicator of each attached panel
    leaveListeners,  \* link elements carrying a handleMouseLeave listener
    lastPanel,       \* id of the panel element created last (element identity)
    pointer,         \* where the user's pointer really is
    modifierDown,    \* whether the configured modifier key is physically held
    loaded,          \* TRUE from onload until onunload
    lastEvent,       \* history: the event the last step dispatched
    calc             \* the input and result of the pure function a Spec* applies

vars == <<settings, activePreview, hoverTimeout, cleanupTimeout, lastMouse,
          timers, domPanels, frames, leaveListeners, lastPanel, pointer,
          modifierDown, loaded, lastEvent, calc>>

-----------------------------------------------------------------------------
(* Bounds of the model and constants of the program *)

TickMs == 100          \* the longest stretch of time one Tick lets pass
MaxTimerId == 5        \* size of the pool timer ids are drawn from
MaxPanelId == 4        \* size of the pool panel element ids are drawn from
CleanupDelay == 300    \* the grace window of startCleanupTimer
SettleDelay == 50      \* the delay iframe.onload waits before revealing the page
MaxSettleTimers == 1   \* iframe load events counted while their callbacks are pending
DefaultHoverDelay == 500
DefaultMaxPreviewHeight == 960
DefaultMaxPreviewWidth == 720

HoverDelays == {200, DefaultHoverDelay}

Links == {"linkA", "linkB"}
\* the elements LINK_SELECTOR matches: the links, and an element that looks
\* like a link but yields no URL
LinkLike == Links \cup {"badLink"}
\* Places of the screen: on a link-like element, on empty space, or inside the
\* rectangle the floating panel occupies (empty space while no panel is
\* attached).
Places == LinkLike \cup {"empty", "panel"}

\* what getUrlFromEditorByText / extractUrlFromElement resolve for an element
\* ("" for none)
UrlOf(l) == IF l = "linkA" THEN "https://a.example/"
            ELSE IF l = "linkB" THEN "https://b.example/"
            ELSE ""

\* The rectangles of the elements, and the coordinates the pointer has when it
\* is at a place: the top left corner of the element there, a point of its
\* edge.
RectOf == [el \in LinkLike \cup {"panel"} |->
            IF el = "linkA" THEN [left |-> 10, top |-> 10, right |-> 60, bottom |-> 20]
            ELSE IF el = "linkB" THEN [left |-> 10, top |-> 30, right |-> 60, bottom |-> 40]
            ELSE IF el = "badLink" THEN [left |-> 10, top |-> 50, right |-> 60, bottom |-> 60]
            ELSE [left |-> 10, top |-> 70, right |-> 90, bottom |-> 130]]
getBoundingClientRect(el) == RectOf[el]
MousePosition(place) ==
    IF place = "empty" THEN [x |-> 0, y |-> 0]
    ELSE [x |-> RectOf[place].left, y |-> RectOf[place].top]

NoPreview == [element |-> 0, link |-> "none"]
NoLink == [element |-> "none", url |-> ""]

Min(a, b) == IF a < b THEN a ELSE b
Max(a, b) == IF a > b THEN a ELSE b

-----------------------------------------------------------------------------
(* The plugin's and the browser's state as one record, so that a handler is *)
(* a function from state to state and handlers compose as the code calls    *)
(* them.                                                                     *)

St == [activePreview |-> activePreview, hoverTimeout |-> hoverTimeout,
       cleanupTimeout |-> cleanupTimeout, lastMouse |-> lastMouse,
       timers |-> timers, domPanels |-> domPanels, frames |-> frames,
       leaveListeners |-> leaveListeners, lastPanel |-> lastPanel]

Becomes(s) ==
    /\ activePreview' = s.activePreview
    /\ hoverTimeout' = s.hoverTimeout
    /\ cleanupTimeout' = s.cleanupTimeout
    /\ lastMouse' = s.lastMouse
    /\ timers' = s.timers
    /\ domPanels' = s.domPanels
    /\ frames' = s.frames
    /\ leaveListeners' = s.leaveListeners
    /\ lastPanel' = s.lastPanel

TimerIdsOf(s) == {s.timers[i].id : i \in 1..Len(s.timers)}

\* window.setTimeout returns an id no pending timer and no field of the plugin
\* still holds (browsers never reuse an id; an id nobody holds is as good as new).
FreshTimerId(s) ==
    LET used == TimerIdsOf(s) \cup {s.hoverTimeout, s.cleanupTimeout}
        free == (1..MaxTimerId) \ used
    IN CHOOSE i \in free : \A j \in free : i <= j

setTimeout(s, kind, link, url, delay, by) ==
    [s EXCEPT !.timers = Append(@, [id |-> FreshTimerId(s), kind |-> kind,
                                    link |-> link, url |-> url,
                                    remaining |-> delay, by |-> by])]

clearTimeout(s, id) ==
    [s EXCEPT !.timers = SelectSeq(@, LAMBDA t : t.id # id)]

ShowTimers(s) == {s.timers[i] : i \in {j \in 1..Len(s.timers) : s.timers[j].kind = "show"}}
HideTimers(s) == {s.timers[i] : i \in {j \in 1..Len(s.timers) : s.timers[j].kind = "hide"}}

-----------------------------------------------------------------------------
(* LinkPreviewPlugin *)

\* The DOM of the life-cycle model: every link-like element is a child of
\* the document body; "empty" and the panel have no link-like ancestor.
findLinkElement(target, relatedTarget) ==
    IF target \notin LinkLike THEN NoLink
    ELSE IF relatedTarget = target THEN NoLink
    ELSE IF UrlOf(target) = "" THEN NoLink
    ELSE [element |-> target, url |-> UrlOf(target)]

\* mutant: the modifier is taken to be held on every pointer-over
isModifierKeyPressed_Always(ev) == TRUE

isModifierKeyPressed(ev) == ev.modifier

\* the cleanup closure of showPreview: previewEl.remove(); activePreview = undefined
cleanup(s, el) ==
    [s EXCEPT !.domPanels = {p \in @ : p.id # el},
              !.frames = {f \in @ : f.id # el},
              !.activePreview = NoPreview]

\* mutant: the teardown leaves the hide timer pending
cleanupActivePreview_KeepsHideTimer(s) ==
    LET s1 == IF s.activePreview # NoPreview
              THEN cleanup(s, s.activePreview.element) ELSE s
    IN IF s1.hoverTimeout # 0
       THEN [clearTimeout(s1, s1.hoverTimeout) EXCEPT !.hoverTimeout = 0]
       ELSE s1

cleanupActivePreview(s) ==
    LET s1 == IF s.activePreview # NoPreview
              THEN cleanup(s, s.activePreview.element) ELSE s
        s2 == IF s1.hoverTimeout # 0
              THEN [clearTimeout(s1, s1.hoverTimeout) EXCEPT !.hoverTimeout = 0]
              ELSE s1
    IN IF s2.cleanupTimeout # 0
       THEN [clearTimeout(s2, s2.cleanupTimeout) EXCEPT !.cleanupTimeout = 0]
       ELSE s2

\* mutant: a pointer on the edge of a rectangle counts as outside it
isMouseOverPreviewOrLink_EdgesOutside(s) ==
    IF s.activePreview = NoPreview THEN FALSE
    ELSE LET lastMouseX == MousePosition(s.lastMouse).x
             lastMouseY == MousePosition(s.lastMouse).y
             previewRect == getBoundingClientRect("panel")
             linkRect == getBoundingClientRect(s.activePreview.link)
         IN IF /\ lastMouseX > previewRect.left
               /\ lastMouseX < previewRect.right
               /\ lastMouseY > previewRect.top
               /\ lastMouseY < previewRect.bottom
            THEN TRUE
            ELSE /\ lastMouseX > linkRect.left
                 /\ lastMouseX < linkRect.right
                 /\ lastMouseY > linkRect.top
                 /\ lastMouseY < linkRect.bottom

isMouseOverPreviewOrLink(s) ==
    IF s.activePreview = NoPreview THEN FALSE
    ELSE LET lastMouseX == MousePosition(s.lastMouse).x
             lastMouseY == MousePosition(s.lastMouse).y
             previewRect == getBoundingClientRect("panel")
             linkRect == getBoundingClientRect(s.activePreview.link)
         IN IF /\ lastMouseX >= previewRect.left
               /\ lastMouseX <= previewRect.right
               /\ lastMouseY >= previewRect.top
               /\ lastMouseY <= previewRect.bottom
            THEN TRUE
            ELSE /\ lastMouseX >= linkRect.left
                 /\ lastMouseX <= linkRect.right
                 /\ lastMouseY >= linkRect.top
                 /\ lastMouseY <= linkRect.bottom

\* mutant: the hide timer is armed without cancelling the pending one
startCleanupTimer_NoClear(s) ==
    [setTimeout(s, "hide", "none", "", CleanupDelay, "leave")
        EXCEPT !.cleanupTimeout = FreshTimerId(s)]

startCleanupTimer(s) ==
    LET s1 == IF s.cleanupTimeout # 0 THEN clearTimeout(s, s.cleanupTimeout) ELSE s
        id == FreshTimerId(s1)
    IN [setTimeout(s1, "hide", "none", "", CleanupDelay, "leave")
            EXCEPT !.cleanupTimeout = id]

\* the callback startCleanupTimer arms
cleanupTimerCallback(s) ==
    IF s.activePreview # NoPreview /\ isMouseOverPreviewOrLink(s)
    THEN [s EXCEPT !.cleanupTimeout = 0]
    ELSE [cleanupActivePreview(s) EXCEPT !.cleanupTimeout = 0]

FreshPanelId(s) ==
    LET used == {p.id : p \in s.domPanels} \cup {s.lastPanel}
        free == (1..MaxPanelId) \ used
    IN CHOOSE i \in free : \A j \in free : i <= j

\* mutant: the panel is built but never appended to document.body
showPreview_NoAppend(s, link, url) ==
    LET el == FreshPanelId(s)
    IN [s EXCEPT !.activePreview = [element |-> el, link |-> link],
                 !.lastPanel = el]

showPreview(s, link, url) ==
    LET el == FreshPanelId(s)
    IN [s EXCEPT !.domPanels = @ \cup {[id |-> el, link |-> link, url |-> url]},
                 !.frames = @ \cup {[id |-> el, loading |-> "Loading preview...",
                                     isLoaded |-> FALSE]},
                 !.activePreview = [element |-> el, link |-> link],
                 !.lastPanel = el]

SettleTimers(s) ==
    {s.timers[i] : i \in {j \in 1..Len(s.timers) : s.timers[j].kind = "settle"}}

\* the callback iframe.onload arms: iframe.addClass('is-loaded'); loading.remove().
\* Once the panel is detached its elements are out of the document and the
\* callback changes nothing that is kept.
settleCallback(s, el) ==
    [s EXCEPT !.frames = {IF f.id = el
                          THEN [f EXCEPT !.isLoaded = TRUE, !.loading = "removed"]
                          ELSE f : f \in @}]

\* iframe.onload of the panel el: a plain setTimeout whose id nobody keeps
iframeOnload(s, el) ==
    [s EXCEPT !.timers = Append(@, [id |-> FreshTimerId(s), kind |-> "settle",
                                    link |-> "none", url |-> "",
                                    remaining |-> SettleDelay, by |-> "load",
                                    el |-> el])]

\* mutant: a failed load closes the preview
iframeOnerror_ClosesPreview(s, el) ==
    cleanupActivePreview(s)

\* iframe.onerror of the panel el: loading.textContent = 'Failed to load preview'
iframeOnerror(s, el) ==
    [s EXCEPT !.frames = {IF f.id = el /\ f.loading # "removed"
                          THEN [f EXCEPT !.loading = "Failed to load preview"]
                          ELSE f : f \in @}]

\* the mouseleave listener handleLinkHover leaves on the link element
\* (the timer it arms is marked with the link that was left: a history mark,
\* the callback does not depend on it)
handleMouseLeave(s, linkElement, toElement) ==
    IF toElement = "panel" /\ s.activePreview # NoPreview
    THEN s
    ELSE LET s1 == startCleanupTimer(s)
         IN [s1 EXCEPT !.timers[Len(s1.timers)].link = linkElement,
                       !.leaveListeners = @ \ {linkElement}]

\* mutant: entering the panel does not cancel the hide timer
previewMouseEnter_NoCancel(s) == s

\* the mouseenter listener of the panel element
previewMouseEnter(s) ==
    IF s.cleanupTimeout # 0
    THEN [clearTimeout(s, s.cleanupTimeout) EXCEPT !.cleanupTimeout = 0]
    ELSE s

\* the mouseleave listener of the panel element
previewMouseLeave(s) == startCleanupTimer(s)

\* mutant: no check that the hovered link already owns the Active Preview
handleLinkHover_NoSameLinkCheck(s, ev) ==
    IF s.activePreview # NoPreview /\ ev.target = "panel" THEN s
    ELSE IF settings.requireModifierKey /\ ~isModifierKeyPressed(ev) THEN s
    ELSE LET linkInfo == findLinkElement(ev.target, ev.relatedTarget) IN
    IF linkInfo = NoLink THEN s
    ELSE LET s1 == IF s.hoverTimeout # 0 THEN clearTimeout(s, s.hoverTimeout) ELSE s
             s2 == cleanupActivePreview(s1)
             id == FreshTimerId(s2)
             s3 == [setTimeout(s2, "show", linkInfo.element, linkInfo.url,
                               settings.hoverDelay, "hover")
                        EXCEPT !.hoverTimeout = id]
         IN [s3 EXCEPT !.leaveListeners = @ \cup {linkInfo.element}]

\* mutant: a pointer-over that resolves to no link closes the preview
handleLinkHover_CloseOnMiss(s, ev) ==
    IF findLinkElement(ev.target, ev.relatedTarget) = NoLink
    THEN cleanupActivePreview(s)
    ELSE handleLinkHover_NoSameLinkCheck(s, ev)

handleLinkHover(s, ev) ==
    IF s.activePreview # NoPreview /\ ev.target = "panel" THEN s
    ELSE IF settings.requireModifierKey /\ ~isModifierKeyPressed(ev) THEN s
    ELSE LET linkInfo == findLinkElement(ev.target, ev.relatedTarget) IN
    IF linkInfo = NoLink THEN s
    ELSE LET s1 == IF s.hoverTimeout # 0 THEN clearTimeout(s, s.hoverTimeout) ELSE s IN
    IF s1.activePreview # NoPreview /\ s1.activePreview.link = linkInfo.element
    THEN IF s1.cleanupTimeout # 0
         THEN [clearTimeout(s1, s1.cleanupTimeout) EXCEPT !.cleanupTimeout = 0]
         ELSE s1
    ELSE LET s2 == cleanupActivePreview(s1)
             id == FreshTimerId(s2)
             s3 == [setTimeout(s2, "show", linkInfo.element, linkInfo.url,
                               settings.hoverDelay, "hover")
                        EXCEPT !.hoverTimeout = id]
         IN [s3 EXCEPT !.leaveListeners = @ \cup {linkInfo.element}]

\* document.elementFromPoint(lastMouseX, lastMouseY)
elementFromPoint(s, place) ==
    IF place = "panel" /\ s.domPanels = {} THEN "empty" ELSE place

\* mutant: no check that a preview is already shown
handleModifierKeyDown_NoActiveCheck(s) ==
    LET linkInfo == findLinkElement(elementFromPoint(s, s.lastMouse), "null") IN
    IF linkInfo = NoLink THEN s
    ELSE LET s1 == IF s.hoverTimeout # 0 THEN clearTimeout(s, s.hoverTimeout) ELSE s
             id == FreshTimerId(s1)
         IN [setTimeout(s1, "show", linkInfo.element, linkInfo.url,
                        settings.hoverDelay, "key")
                 EXCEPT !.hoverTimeout = id]

\* mutant: an Active Preview stops the key-down only over its own origin link
handleModifierKeyDown_ActiveCheckSameLink(s) ==
    LET linkInfo == findLinkElement(elementFromPoint(s, s.lastMouse), "null") IN
    IF linkInfo = NoLink \/ s.activePreview.link = linkInfo.element THEN s
    ELSE LET s1 == IF s.hoverTimeout # 0 THEN clearTimeout(s, s.hoverTimeout) ELSE s
             id == FreshTimerId(s1)
         IN [setTimeout(s1, "show", linkInfo.element, linkInfo.url,
                        settings.hoverDelay, "key")
                 EXCEPT !.hoverTimeout = id]

handleModifierKeyDown(s) ==
    IF s.activePreview # NoPreview THEN s
    ELSE LET linkInfo == findLinkElement(elementFromPoint(s, s.lastMouse), "null") IN
    IF linkInfo = NoLink THEN s
    ELSE LET s1 == IF s.hoverTimeout # 0 THEN clearTimeout(s, s.hoverTimeout) ELSE s
             id == FreshTimerId(s1)
         IN [setTimeout(s1, "show", linkInfo.element, linkInfo.url,
                        settings.hoverDelay, "key")
                 EXCEPT !.hoverTimeout = id]

\* mutant: the release closes an Active Preview only, as the ESC branch does
handleModifierKeyUp_OnlyIfActive(s) ==
    IF settings.closeOnModifierRelease /\ s.activePreview # NoPreview
    THEN cleanupActivePreview(s) ELSE s

handleModifierKeyUp(s) ==
    IF settings.closeOnModifierRelease THEN cleanupActivePreview(s) ELSE s

\* the keydown listener of registerGlobalHandler
keydownListener(s, key) ==
    LET s1 == IF key = "Escape" /\ s.activePreview # NoPreview
              THEN cleanupActivePreview(s) ELSE s
    IN IF settings.requireModifierKey /\ key = "Modifier"
       THEN handleModifierKeyDown(s1) ELSE s1

\* the keyup listener of registerGlobalHandler
keyupListener(s, key) ==
    IF settings.requireModifierKey /\ key = "Modifier"
    THEN handleModifierKeyUp(s) ELSE s

\* the mousemove listener of registerGlobalHandler
mousemoveListener(s, place) == [s EXCEPT !.lastMouse = place]

onunload(s) == cleanupActivePreview(s)


-----------------------------------------------------------------------------
(* The life cycle: Init and one action per event the browser dispatches *)

SettingsSpace ==
    [maxPreviewHeight : {DefaultMaxPreviewHeight},
     maxPreviewWidth : {DefaultMaxPreviewWidth},
     hoverDelay : HoverDelays,
     requireModifierKey : BOOLEAN,
     closeOnModifierRelease : BOOLEAN]

NoCalc == [phase |-> "none"]

\* History: the event a step dispatches, with the kinds of timer that were
\* pending and the preview that was active when it was dispatched.
Event(name) ==
    [name |-> name,
     pending |-> {timers[i].kind : i \in 1..Len(timers)},
     preview |-> activePreview.link]

Init ==
    /\ settings \in SettingsSpace
    /\ activePreview = NoPreview
    /\ hoverTimeout = 0
    /\ cleanupTimeout = 0
    /\ lastMouse = "empty"
    /\ timers = <<>>
    /\ domPanels = {}
    /\ frames = {}
    /\ leaveListeners = {}
    /\ lastPanel = 0
    /\ pointer = "empty"
    /\ modifierDown = FALSE
    /\ loaded = TRUE
    /\ lastEvent = Event("onload")
    /\ calc = NoCalc

\* What one movement of the pointer from `from` to `to` dispatches, in the
\* browser's order: mouseleave on the element left, mouseover on the document,
\* mouseenter on the element entered, mousemove on the document.  The listeners
\* registerDomEvent registered are gone after onunload; those the plugin added
\* with addEventListener stay.  `seen` says whether the document receives the
\* mousemove (inside the panel the iframe's own document may receive it instead).
pointerMoved(s, from, to, modifier, isLoaded, seen) ==
    LET s1 == IF from \in s.leaveListeners
              THEN handleMouseLeave(s, from, to)
              ELSE IF from = "panel" /\ s.domPanels # {}
                   THEN previewMouseLeave(s)
                   ELSE s
        s2 == IF isLoaded
              THEN handleLinkHover(s1, [target |-> to, relatedTarget |-> from,
                                        modifier |-> modifier])
              ELSE s1
        s3 == IF to = "panel" /\ s2.domPanels # {}
              THEN previewMouseEnter(s2) ELSE s2
    IN IF isLoaded /\ seen THEN mousemoveListener(s3, to) ELSE s3

PointerMove(to) ==
    /\ to # pointer
    /\ to = "panel" => domPanels # {}
    /\ \E seen \in BOOLEAN :
          /\ to # "panel" => seen
          /\ Becomes(pointerMoved(St, pointer, to, modifierDown, loaded, seen))
    /\ pointer' = to
    /\ lastEvent' = Event("pointermove")
    /\ UNCHANGED <<settings, modifierDown, loaded, calc>>

\* The pointer moves between sub-elements of the link it is on: a mouseover
\* whose relatedTarget lies inside the link, then a mousemove; no mouseleave.
PointerMoveWithin ==
    /\ pointer \in Links
    /\ loaded
    /\ Becomes(mousemoveListener(
                 handleLinkHover(St, [target |-> pointer, relatedTarget |-> pointer,
                                      modifier |-> modifierDown]), pointer))
    /\ lastEvent' = Event("pointerwithin")
    /\ UNCHANGED <<settings, pointer, modifierDown, loaded, calc>>

Keys == {"Escape", "Modifier", "Other"}

\* A key goes down (or auto-repeats while held).
KeyDown(key) ==
    /\ Becomes(IF loaded THEN keydownListener(St, key) ELSE St)
    /\ modifierDown' = (modifierDown \/ key = "Modifier")
    /\ lastEvent' = Event("keydown" \o key)
    /\ UNCHANGED <<settings, pointer, loaded, calc>>

KeyUp ==
    /\ modifierDown
    /\ Becomes(IF loaded THEN keyupListener(St, "Modifier") ELSE St)
    /\ modifierDown' = FALSE
    /\ lastEvent' = Event("keyupModifier")
    /\ UNCHANGED <<settings, pointer, loaded, calc>>

Due(s) == {i \in 1..Len(s.timers) : s.timers[i].remaining = 0}

\* the time until the next deadline, at most TickMs
TickLength(s) ==
    LET rem == {s.timers[i].remaining : i \in 1..Len(s.timers)} \cup {TickMs}
    IN CHOOSE d \in rem : \A e \in rem : d <= e

Tick ==
    /\ timers # <<>>
    /\ Due(St) = {}
    /\ timers' = [i \in 1..Len(timers) |->
                     [timers[i] EXCEPT !.remaining = @ - TickLength(St)]]
    /\ lastEvent' = Event("tick")
    /\ UNCHANGED <<settings, activePreview, hoverTimeout, cleanupTimeout, lastMouse,
                   domPanels, frames, leaveListeners, lastPanel, pointer, modifierDown,
                   loaded, calc>>

\* The due timer armed first, removed from the timer table as the browser does
\* before it runs the callback.
NextDue(s) == CHOOSE i \in Due(s) : \A j \in Due(s) : i <= j
Fired(s) == [s EXCEPT !.timers = SelectSeq(@, LAMBDA t : t.id # s.timers[NextDue(s)].id)]

\* the callback handleLinkHover and handleModifierKeyDown arm
ShowTimerFire ==
    /\ Due(St) # {}
    /\ timers[NextDue(St)].kind = "show"
    /\ Becomes(showPreview(Fired(St), timers[NextDue(St)].link, timers[NextDue(St)].url))
    /\ lastEvent' = Event("showTimer")
    /\ UNCHANGED <<settings, pointer, modifierDown, loaded, calc>>

HideTimerFire ==
    /\ Due(St) # {}
    /\ timers[NextDue(St)].kind = "hide"
    /\ Becomes(cleanupTimerCallback(Fired(St)))
    /\ lastEvent' = Event("hideTimer")
    /\ UNCHANGED <<settings, pointer, modifierDown, loaded, calc>>

Unload ==
    /\ loaded
    /\ Becomes(onunload(St))
    /\ loaded' = FALSE
    /\ lastEvent' = Event("onunload")
    /\ UNCHANGED <<settings, pointer, modifierDown, calc>>

Next ==
    \/ \E to \in Places : PointerMove(to)
    \/ PointerMoveWithin
    \/ \E key \in Keys : KeyDown(key)
    \/ KeyUp
    \/ Tick
    \/ ShowTimerFire
    \/ HideTimerFire
    \/ Unload

Spec == Init /\ [][Next]_vars

-----------------------------------------------------------------------------
(* The life cycle with the load events of the embedded view *)

\* the iframe of an attached panel finishes loading its page (the page a
\* preview opens with; navigation inside the preview is left out)
IframeLoad(el) ==
    /\ \E f \in frames : f.id = el /\ ~f.isLoaded
    /\ \A t \in SettleTimers(St) : t.el # el
    /\ Cardinality(SettleTimers(St)) < MaxSettleTimers
    /\ Becomes(iframeOnload(St, el))
    /\ lastEvent' = Event("iframeLoad")
    /\ UNCHANGED <<settings, pointer, modifierDown, loaded, calc>>

\* the iframe of an attached panel fails to load
IframeError(el) ==
    /\ \E f \in frames : f.id = el
    /\ Becomes(iframeOnerror(St, el))
    /\ lastEvent' = Event("iframeError")
    /\ UNCHANGED <<settings, pointer, modifierDown, loaded, calc>>

\* the callback iframe.onload armed
SettleTimerFire ==
    /\ Due(St) # {}
    /\ timers[NextDue(St)].kind = "settle"
    /\ Becomes(settleCallback(Fired(St), timers[NextDue(St)].el))
    /\ lastEvent' = Event("settleTimer")
    /\ UNCHANGED <<settings, pointer, modifierDown, loaded, calc>>

\* the settings the load events are explored under
InitLoad ==
    /\ Init
    /\ settings.hoverDelay = DefaultHoverDelay
    /\ settings.closeOnModifierRelease

NextLoad ==
    \/ Next
    \/ \E el \in 1..MaxPanelId : IframeLoad(el)
    \/ \E el \in 1..MaxPanelId : IframeError(el)
    \/ SettleTimerFire

SpecLoad == InitLoad /\ [][NextLoad]_vars

-----------------------------------------------------------------------------
(* Properties of the life cycle *)

Idle(s) == s.activePreview = NoPreview /\ s.timers = <<>> /\ s.domPanels = {}

TimerEvents == {"tick", "showTimer", "hideTimer"}

\* C1: at most one preview panel is attached to the document, and an attached
\* panel is the element activePreview refers to (no orphaned panel).
C1_AtMostOnePanel ==
    /\ Cardinality(domPanels) <= 1
    /\ \A p \in domPanels : activePreview.element = p.id
    /\ activePreview # NoPreview =>
          \E p \in domPanels : p.id = activePreview.element /\ p.link = activePreview.link

\* a second panel, for linkB, is the only attached one after linkA's was shown
C1_Witness ==
    /\ Cardinality(domPanels) = 1
    /\ lastPanel = 2
    /\ activePreview.link = "linkB"
    /\ lastEvent.name = "showTimer"

\* C2: a show timer armed by a pointer-over never creates a panel once the
\* pointer has left the link: when it fires, the pointer is still on a link.
C2_NoPanelAfterLeaving ==
    [][(lastEvent'.name = "showTimer" /\ timers[NextDue(St)].by = "hover")
          => pointer \in Links]_vars

\* C3: a pointer-over on link l arms one show timer for (l, UrlOf(l)) and cancels
\* every hide timer; from then on, while only time passes, that timer stays
\* pending until it is due, and its fire creates exactly one panel, whose
\* embedded view targets UrlOf(l) and whose origin link is l.
C3_HoverThenDelayShowsPanel ==
    /\ [][(lastEvent'.name = "pointermove" /\ ShowTimers(St') # {}
             /\ (ShowTimers(St') # ShowTimers(St) \/ hoverTimeout' # hoverTimeout))
          => /\ pointer' \in Links
             /\ HideTimers(St') = {}
             /\ activePreview' = NoPreview /\ domPanels' = {}
             /\ \A t \in ShowTimers(St') :
                   /\ t.link = pointer' /\ t.url = UrlOf(pointer')
                   /\ t.remaining = settings.hoverDelay
                   /\ t.id = hoverTimeout']_vars
    /\ [][(lastEvent'.name \in TimerEvents /\ HideTimers(St) = {}
             /\ ShowTimers(St) # {})
          => \A t \in ShowTimers(St) :
                \/ /\ lastEvent'.name = "tick"
                   /\ ShowTimers(St') =
                         {[t EXCEPT !.remaining = t.remaining - TickLength(St)]}
                   /\ t.remaining >= TickLength(St)
                   /\ domPanels' = domPanels
                \/ /\ lastEvent'.name = "showTimer"
                   /\ t.remaining = 0
                   /\ domPanels = {}
                   /\ domPanels' = {[id |-> lastPanel', link |-> t.link, url |-> t.url]}
                   /\ lastPanel' # lastPanel
                   /\ activePreview' = [element |-> lastPanel', link |-> t.link]
                   /\ timers' = <<>>]_vars

\* the panel for linkA, shown by a hover-armed timer with the pointer at rest
C3_Witness ==
    /\ lastEvent.name = "showTimer"
    /\ ~settings.requireModifierKey
    /\ pointer = "linkA"
    /\ domPanels = {[id |-> lastPanel, link |-> "linkA", url |-> UrlOf("linkA")]}
    /\ activePreview = [element |-> lastPanel, link |-> "linkA"]
    /\ "linkA" \in leaveListeners

\* the pointer-over events a link element can be the target of
HoverEventsOn(l) ==
    [target : {l}, relatedTarget : Places \cup {"null"}, modifier : BOOLEAN]

\* s with its pending hide timer cancelled and cleanupTimeout undefined
HideCancelled(s) ==
    [s EXCEPT !.timers = SelectSeq(@, LAMBDA t : t.kind # "hide"),
              !.cleanupTimeout = 0]

\* C4: while an Active Preview exists, a pointer-over resolving to its own origin
\* link leaves the panel, the preview and the listeners as they are and arms no
\* show timer; at most it cancels the pending hide timer.
C4_RehoverIdempotent ==
    (loaded /\ activePreview # NoPreview) =>
        \A ev \in HoverEventsOn(activePreview.link) :
            LET s == handleLinkHover(St, ev)
            IN /\ s \in {St, HideCancelled(St)}
               /\ ShowTimers(s) = {}
               /\ s.activePreview = activePreview
               /\ s.domPanels = domPanels

\* the pointer came back to the origin link of the preview while its hide
\* timer was pending, and the preview is still there with no timer pending
C4_Witness ==
    /\ lastEvent = [name |-> "pointermove", pending |-> {"hide"}, preview |-> "linkA"]
    /\ pointer = "linkA"
    /\ activePreview = [element |-> lastPanel, link |-> "linkA"]
    /\ timers = <<>>

\* C5: whenever an Active Preview exists and the pointer moves to a place
\* outside both its origin link and the panel, the preview is torn down at once
\* (superseded) or the hide timer is pending afterwards, so that the preview is
\* torn down when the grace window ends.
C5_LeavingArmsHideTimer ==
    [][(loaded /\ activePreview # NoPreview /\ lastEvent'.name = "pointermove"
          /\ pointer' \notin {activePreview.link, "panel"}
          /\ activePreview' # NoPreview)
       => HideTimers(St') # {}]_vars

\* C6: when the pointer enters the panel of the Active Preview, the pending hide
\* timer is cancelled and the preview stays; while the pointer stays in the
\* panel no timer tears the preview down.
C6_GraceSurvival ==
    /\ [][(lastEvent'.name = "pointermove" /\ pointer' = "panel"
             /\ activePreview # NoPreview)
          => /\ activePreview' = activePreview
             /\ domPanels' = domPanels
             /\ HideTimers(St') = {}
             /\ cleanupTimeout' = 0]_vars
    /\ [][(pointer = "panel" /\ activePreview # NoPreview
             /\ lastEvent'.name \in TimerEvents)
          => /\ activePreview' = activePreview
             /\ domPanels' = domPanels
             /\ lastEvent'.name = "tick" => HideTimers(St') = {}]_vars

\* the pointer had left linkA (hide timer pending, its remaining time partly
\* used) and entered the panel: the preview is there and then time passed
C6_Witness ==
    /\ lastEvent = [name |-> "pointermove", pending |-> {"hide"}, preview |-> "linkA"]
    /\ pointer = "panel"
    /\ lastMouse = "empty"
    /\ activePreview = [element |-> lastPanel, link |-> "linkA"]
    /\ "linkA" \notin leaveListeners
    /\ timers = <<>>

\* C7: an ESC key-down leaves the controller Idle in every state: no Active
\* Preview and neither timer pending.
C7_EscAlwaysIdle ==
    loaded => Idle(keydownListener(St, "Escape"))

\* C8: with require-modifier and close-on-release enabled, the key-up of the
\* modifier leaves the controller Idle: no preview, no panel, no pending timer.
C8_ReleaseClosesEverything ==
    (loaded /\ settings.requireModifierKey /\ settings.closeOnModifierRelease)
        => Idle(keyupListener(St, "Modifier"))

\* the modifier was released over linkA while its preview was active
C8_Witness ==
    /\ lastEvent.name = "keyupModifier"
    /\ lastEvent.preview = "linkA"
    /\ settings.requireModifierKey /\ settings.closeOnModifierRelease
    /\ loaded
    /\ pointer = "linkA"
    /\ Idle(St)

\* a show timer, and nothing else, was pending when the modifier was released
C8_WitnessShowPending ==
    /\ lastEvent = [name |-> "keyupModifier", pending |-> {"show"}, preview |-> "none"]
    /\ settings.requireModifierKey /\ settings.closeOnModifierRelease
    /\ loaded
    /\ Idle(St)

\* C9: with require-modifier enabled, a pointer-over on which the modifier is
\* not held changes nothing (no timer armed or cancelled, no preview created or
\* destroyed, no listener added); and a pointer-over arms the show timer only
\* when the modifier is held.
C9_ModifierGate ==
    /\ [](( loaded /\ settings.requireModifierKey) =>
            \A target \in Places : \A rel \in Places \cup {"null"} :
                handleLinkHover(St, [target |-> target, relatedTarget |-> rel,
                                     modifier |-> FALSE]) = St)
    /\ [][(settings.requireModifierKey /\ lastEvent'.name = "pointermove"
             /\ \E t \in ShowTimers(St') : t.by = "hover" /\ t \notin ShowTimers(St))
          => modifierDown]_vars

\* the pointer arrived on linkA without the modifier while linkB's preview was
\* shown and its hide timer pending: all is as it was before the pointer-over
C9_Witness ==
    /\ settings.requireModifierKey
    /\ lastEvent.name = "pointermove"
    /\ pointer = "linkA" /\ ~modifierDown /\ loaded
    /\ activePreview.link = "linkB"
    /\ ShowTimers(St) = {}
    /\ "linkA" \notin leaveListeners

-----------------------------------------------------------------------------
(* calculatePreviewBounds *)

Margin == 5
MaxCoord == 40

Coords == (0 - 12)..MaxCoord
AnchorHeights == {2, 6}
AnchorWidth == 4
ViewportSizes == {[width |-> 30, height |-> 30], [width |-> 30, height |-> 20],
                  [width |-> 12, height |-> 14]}
PreviewMaxima == {[maxPreviewWidth |-> 10, maxPreviewHeight |-> 4],
                  [maxPreviewWidth |-> 10, maxPreviewHeight |-> 10],
                  [maxPreviewWidth |-> 10, maxPreviewHeight |-> 40],
                  [maxPreviewWidth |-> 40, maxPreviewHeight |-> 40]}

\* mutant: the flip condition taken with <= in place of <
calculatePreviewBounds_FlipAtBoundary(rect, windowSize) ==
    LET margin == Margin
        maxWidth == Min(settings.maxPreviewWidth, windowSize.width - margin * 2)
        maxHeight == Min(settings.maxPreviewHeight, windowSize.height - margin * 2)
        spaceBelow == windowSize.height - rect.bottom - margin
        spaceAbove == rect.top - margin
        showAbove == spaceBelow <= maxHeight /\ spaceAbove > spaceBelow
        top == IF showAbove
               THEN Max(margin, rect.top - maxHeight - margin)
               ELSE Min(rect.bottom + margin, windowSize.height - maxHeight - margin)
        left0 == rect.left
        left1 == IF left0 + maxWidth > windowSize.width - margin
                 THEN windowSize.width - maxWidth - margin
                 ELSE left0
        left == Max(margin, left1)
    IN [left |-> left, top |-> top, width |-> maxWidth, height |-> maxHeight,
        showAbove |-> showAbove]

calculatePreviewBounds(rect, windowSize) ==
    LET margin == Margin
        maxWidth == Min(settings.maxPreviewWidth, windowSize.width - margin * 2)
        maxHeight == Min(settings.maxPreviewHeight, windowSize.height - margin * 2)
        spaceBelow == windowSize.height - rect.bottom - margin
        spaceAbove == rect.top - margin
        showAbove == spaceBelow < maxHeight /\ spaceAbove > spaceBelow
        top == IF showAbove
               THEN Max(margin, rect.top - maxHeight - margin)
               ELSE Min(rect.bottom + margin, windowSize.height - maxHeight - margin)
        left0 == rect.left
        left1 == IF left0 + maxWidth > windowSize.width - margin
                 THEN windowSize.width - maxWidth - margin
                 ELSE left0
        left == Max(margin, left1)
    IN [left |-> left, top |-> top, width |-> maxWidth, height |-> maxHeight,
        showAbove |-> showAbove]

NoBounds == [left |-> 0, top |-> 0, width |-> 0, height |-> 0, showAbove |-> FALSE]

InitBounds ==
    /\ \E m \in PreviewMaxima :
          settings = [maxPreviewHeight |-> m.maxPreviewHeight,
                      maxPreviewWidth |-> m.maxPreviewWidth,
                      hoverDelay |-> DefaultHoverDelay,
                      requireModifierKey |-> TRUE,
                      closeOnModifierRelease |-> TRUE]
    /\ \E l \in Coords, tp \in Coords, h \in AnchorHeights, w \in ViewportSizes :
          calc = [phase |-> "input",
                  rect |-> [left |-> l, top |-> tp, right |-> l + AnchorWidth,
                            bottom |-> tp + h],
                  windowSize |-> w,
                  bounds |-> NoBounds]
    /\ activePreview = NoPreview
    /\ hoverTimeout = 0
    /\ cleanupTimeout = 0
    /\ lastMouse = "empty"
    /\ timers = <<>>
    /\ domPanels = {}
    /\ frames = {}
    /\ leaveListeners = {}
    /\ lastPanel = 0
    /\ pointer = "empty"
    /\ modifierDown = FALSE
    /\ loaded = TRUE
    /\ lastEvent = Event("onload")

\* createPreviewElement asks for the bounds of a panel anchored at rect
Calculate ==
    /\ calc.phase = "input"
    /\ calc' = [calc EXCEPT !.phase = "done",
                            !.bounds = calculatePreviewBounds(calc.rect, calc.windowSize)]
    /\ UNCHANGED <<settings, activePreview, hoverTimeout, cleanupTimeout, lastMouse,
                   timers, domPanels, frames, leaveListeners, lastPanel, pointer,
                   modifierDown, loaded, lastEvent>>

NextBounds == Calculate

SpecBounds == InitBounds /\ [][NextBounds]_vars

\* C10: the rectangle calculatePreviewBounds returns lies within the viewport
\* less the margin on every side, and is no larger than the configured maxima.
C10_BoundsContained ==
    calc.phase = "done" =>
        LET b == calc.bounds
            w == calc.windowSize
        IN /\ Margin <= b.left
           /\ b.left + b.width <= w.width - Margin
           /\ Margin <= b.top
           /\ b.top + b.height <= w.height - Margin
           /\ b.width <= settings.maxPreviewWidth
           /\ b.height <= settings.maxPreviewHeight

\* The quantities the orientation rule is stated in, taken from the inputs of
\* the calculation held in calc.
SpaceBelowAnchor == calc.windowSize.height - calc.rect.bottom - 5
SpaceAboveAnchor == calc.rect.top - 5
EffectiveHeight == Min(settings.maxPreviewHeight, calc.windowSize.height - 10)

\* C11: the panel is placed above the anchor exactly when the space below is
\* smaller than the effective height and the space above is larger than the
\* space below; in every other case, the boundary spaceBelow = effectiveHeight
\* and the tie spaceAbove = spaceBelow included, it is placed below.
C11_FlipsAboveExactlyWhen ==
    calc.phase = "done" =>
        LET above == SpaceBelowAnchor < EffectiveHeight
                        /\ SpaceAboveAnchor > SpaceBelowAnchor
        IN /\ calc.bounds.showAbove = above
           /\ above => calc.bounds.top
                          = Max(5, calc.rect.top - EffectiveHeight - 5)
           /\ ~above => calc.bounds.top
                          = Min(calc.rect.bottom + 5,
                                calc.windowSize.height - EffectiveHeight - 5)

\* the boundary: the space below equals the effective height while there is
\* more room above, and the panel went below
C11_Witness ==
    /\ calc.phase = "done"
    /\ SpaceBelowAnchor = EffectiveHeight
    /\ SpaceAboveAnchor > SpaceBelowAnchor
    /\ ~calc.bounds.showAbove

\* the tie: too little room below, exactly as much above, and the panel went below
C11_WitnessTie ==
    /\ calc.phase = "done"
    /\ SpaceBelowAnchor < EffectiveHeight
    /\ SpaceAboveAnchor = SpaceBelowAnchor
    /\ ~calc.bounds.showAbove

\* the flip: the panel went above
C11_WitnessAbove ==
    /\ calc.phase = "done"
    /\ calc.bounds.showAbove
    /\ calc.bounds.top + calc.bounds.height <= calc.rect.top

-----------------------------------------------------------------------------
(* Strings.  A string is a sequence of one-character strings, so that        *)
(* trimming, prefix tests, searching and parsing work on its characters.     *)

Whitespace == {" ", "\n"}
Digits == {"0", "1", "2", "3", "4", "5", "6", "7", "8", "9"}
DigitValue == ("0" :> 0) @@ ("1" :> 1) @@ ("2" :> 2) @@ ("3" :> 3) @@ ("4" :> 4)
                @@ ("5" :> 5) @@ ("6" :> 6) @@ ("7" :> 7) @@ ("8" :> 8) @@ ("9" :> 9)
LowerCaseOf == ("A" :> "a") @@ ("B" :> "b") @@ ("H" :> "h") @@ ("P" :> "p")
                @@ ("S" :> "s") @@ ("T" :> "t")

\* String.prototype.trim
trim(str) ==
    LET kept == {i \in 1..Len(str) : str[i] \notin Whitespace}
    IN IF kept = {} THEN <<>>
       ELSE SubSeq(str, CHOOSE i \in kept : \A j \in kept : i <= j,
                        CHOOSE i \in kept : \A j \in kept : j <= i)

\* String.prototype.toLowerCase, as the /i flag and the URL parser apply it
toLowerCase(str) ==
    [i \in 1..Len(str) |-> IF str[i] \in DOMAIN LowerCaseOf THEN LowerCaseOf[str[i]]
                           ELSE str[i]]

\* String.prototype.startsWith
startsWith(str, prefix) ==
    Len(prefix) <= Len(str) /\ SubSeq(str, 1, Len(prefix)) = prefix

\* String.prototype.includes
includes(str, part) ==
    \E i \in 0..(Len(str) - Len(part)) : SubSeq(str, i + 1, i + Len(part)) = part

\* the index of the first character of str at or after from that lies in
\* chars, or Len(str) + 1 when there is none
indexOfAny(str, chars, from) ==
    LET hits == {i \in from..Len(str) : str[i] \in chars}
    IN IF hits = {} THEN Len(str) + 1 ELSE CHOOSE i \in hits : \A j \in hits : i <= j

Http == <<"h", "t", "t", "p">>
Https == <<"h", "t", "t", "p", "s">>
Ftp == <<"f", "t", "p">>
ColonSlashSlash == <<":", "/", "/">>

-----------------------------------------------------------------------------
(* normalizeUrl and the URL parser it calls *)

NullUrl == [present |-> FALSE, href |-> <<>>]
SomeUrl(href) == [present |-> TRUE, href |-> href]

\* the schemes the URL parser treats as special, with their default ports
DefaultPort == [scheme \in {Http, Https, Ftp} |->
                  IF scheme = Http THEN 80 ELSE IF scheme = Https THEN 443 ELSE 21]
MaxPort == 65535

RECURSIVE parseInt(_)
parseInt(digits) ==
    IF digits = <<>> THEN 0
    ELSE 10 * parseInt(SubSeq(digits, 1, Len(digits) - 1)) + DigitValue[digits[Len(digits)]]

DigitOf(n) == CHOOSE d \in Digits : DigitValue[d] = n

RECURSIVE numberToString(_)
numberToString(n) ==
    IF n < 10 THEN <<DigitOf(n)>>
    ELSE numberToString(n \div 10) \o <<DigitOf(n % 10)>>

\* the path percent-encode set, as far as the alphabet reaches: a space
RECURSIVE percentEncodePath(_)
percentEncodePath(path) ==
    IF path = <<>> THEN <<>>
    ELSE (IF Head(path) = " " THEN <<"%", "2", "0">> ELSE <<Head(path)>>)
            \o percentEncodePath(Tail(path))

\* new URL(input).href for an input without a base: the basic URL parser on
\* scheme, host, port and path, then the URL serializer.  It covers the
\* special schemes http, https and ftp (normalizeUrl lets only the first two
\* through); hosts are domains (no userinfo, no IP literal), paths have no dot
\* segments, and there is no query or fragment.
URLhref(input) ==
    LET text == SelectSeq(trim(input), LAMBDA c : c # "\n")
        colon == indexOfAny(text, {":"}, 1)
        scheme == toLowerCase(SubSeq(text, 1, colon - 1))
        afterScheme == SubSeq(text, colon + 1, Len(text))
        notSlash == {i \in 1..Len(afterScheme) : afterScheme[i] # "/"}
        rest == IF notSlash = {} THEN <<>>
                ELSE SubSeq(afterScheme, CHOOSE i \in notSlash : \A j \in notSlash : i <= j,
                            Len(afterScheme))
        slash == indexOfAny(rest, {"/"}, 1)
        authority == SubSeq(rest, 1, slash - 1)
        portColon == indexOfAny(authority, {":"}, 1)
        host == toLowerCase(SubSeq(authority, 1, portColon - 1))
        portText == SubSeq(authority, portColon + 1, Len(authority))
        port == parseInt(portText)
        path == SubSeq(rest, slash, Len(rest))
    IN IF colon > Len(text) \/ scheme \notin DOMAIN DefaultPort THEN NullUrl
       ELSE IF host = <<>> \/ \E i \in 1..Len(host) : host[i] \in {" ", "%"} THEN NullUrl
       ELSE IF \E i \in 1..Len(portText) : portText[i] \notin Digits THEN NullUrl
       ELSE IF port > MaxPort THEN NullUrl
       ELSE SomeUrl(scheme \o ColonSlashSlash \o host
                    \o (IF portText = <<>> \/ port = DefaultPort[scheme] THEN <<>>
                        ELSE <<":">> \o numberToString(port))
                    \o (IF path = <<>> THEN <<"/">> ELSE percentEncodePath(path)))

\* /^https?:\/\//i.test(str)
testHttpPrefix(str) ==
    \/ startsWith(toLowerCase(str), Http \o ColonSlashSlash)
    \/ startsWith(toLowerCase(str), Https \o ColonSlashSlash)

\* mutant: the prefix test left out
normalizeUrl_NoPrefixTest(candidate) ==
    URLhref(trim(candidate))

normalizeUrl(candidate) ==
    LET trimmed == trim(candidate)
    IN IF ~testHttpPrefix(trimmed) THEN NullUrl
       ELSE URLhref(trimmed)

\* every variable but calc, as it is while one of the pure functions runs
PluginAtRest ==
    /\ settings = [maxPreviewHeight |-> DefaultMaxPreviewHeight,
                   maxPreviewWidth |-> DefaultMaxPreviewWidth,
                   hoverDelay |-> DefaultHoverDelay,
                   requireModifierKey |-> TRUE,
                   closeOnModifierRelease |-> TRUE]
    /\ activePreview = NoPreview
    /\ hoverTimeout = 0
    /\ cleanupTimeout = 0
    /\ lastMouse = "empty"
    /\ timers = <<>>
    /\ domPanels = {}
    /\ frames = {}
    /\ leaveListeners = {}
    /\ lastPanel = 0
    /\ pointer = "empty"
    /\ modifierDown = FALSE
    /\ loaded = TRUE
    /\ lastEvent = Event("onload")

\* The candidates: leading white space, a scheme with its separator, a host,
\* a port, a path and trailing white space, each taken from a few well-formed
\* and ill-formed spellings.
LeadingTexts == {<<>>, <<" ">>, <<"\n">>}
SchemeTexts == {Http \o ColonSlashSlash,
                <<"H", "T", "T", "P">> \o ColonSlashSlash,
                Https \o ColonSlashSlash,
                <<"H", "t", "t", "p", "S">> \o ColonSlashSlash,
                Http \o <<":", "/", "/", "/">>,
                Http \o <<":", "/">>,
                Http \o <<":">>,
                Ftp \o ColonSlashSlash,
                <<"/", "/">>,
                <<>>}
HostTexts == {<<"a", ".", "b">>, <<"A", ".", "b">>, <<"a", " ", "b">>,
              <<"a", "\n", "b">>, <<>>}
PortTexts == {<<>>, <<":">>, <<":", "8", "0">>, <<":", "4", "4", "3">>, <<":", "8">>,
              <<":", "0", "8", "0">>, <<":", "9", "9", "9", "9", "9">>, <<":", "p">>}
PathTexts == {<<>>, <<"/">>, <<"/", "p">>, <<"/", "P", " ", "b">>,
              <<"/", "p", "%", "2", "0", "b">>}
TrailingTexts == {<<>>, <<" ">>}

InitNormalize ==
    /\ PluginAtRest
    /\ \E lead \in LeadingTexts, scheme \in SchemeTexts, host \in HostTexts,
          port \in PortTexts, path \in PathTexts, trail \in TrailingTexts :
          calc = [phase |-> "input",
                  candidate |-> lead \o scheme \o host \o port \o path \o trail,
                  once |-> NullUrl,
                  twice |-> NullUrl]

\* a caller normalizes a candidate
Normalize ==
    /\ calc.phase = "input"
    /\ calc' = [calc EXCEPT !.phase = "once", !.once = normalizeUrl(calc.candidate)]
    /\ UNCHANGED <<settings, activePreview, hoverTimeout, cleanupTimeout, lastMouse,
                   timers, domPanels, frames, leaveListeners, lastPanel, pointer,
                   modifierDown, loaded, lastEvent>>

\* a caller normalizes what an earlier call returned (extractUrlFromElement on
\* an anchor's href, getUrlFromEditorByText on rendered text that is a URL)
NormalizeResult ==
    /\ calc.phase = "once"
    /\ calc.once.present
    /\ calc' = [calc EXCEPT !.phase = "twice", !.twice = normalizeUrl(calc.once.href)]
    /\ UNCHANGED <<settings, activePreview, hoverTimeout, cleanupTimeout, lastMouse,
                   timers, domPanels, frames, leaveListeners, lastPanel, pointer,
                   modifierDown, loaded, lastEvent>>

NextNormalize == Normalize \/ NormalizeResult

SpecNormalize == InitNormalize /\ [][NextNormalize]_vars

\* the candidate, trimmed, begins with http:// or https:// in some casing
BeginsWithHttp(str) ==
    \E prefix \in {Http \o ColonSlashSlash, Https \o ColonSlashSlash} :
        /\ Len(trim(str)) >= Len(prefix)
        /\ \A i \in 1..Len(prefix) :
              trim(str)[i] = prefix[i] \/ (trim(str)[i] \in DOMAIN LowerCaseOf
                                            /\ LowerCaseOf[trim(str)[i]] = prefix[i])

\* C13: normalizeUrl applied to one of its results returns that result, and
\* it returns absent for every candidate whose trimmed text does not begin
\* with http:// or https:// (in any casing) and for every candidate the URL
\* parser rejects.
C13_NormalizeIdempotent ==
    /\ calc.phase = "twice" => calc.twice = calc.once
    /\ calc.phase \in {"once", "twice"} =>
          /\ ~BeginsWithHttp(calc.candidate) => ~calc.once.present
          /\ ~URLhref(calc.candidate).present => ~calc.once.present

\* a candidate that normalization changed, normalized again
C13_Witness ==
    /\ calc.phase = "twice"
    /\ calc.once.present
    /\ calc.once.href # calc.candidate
    /\ calc.once.href # trim(calc.candidate)
    /\ calc.twice = calc.once

\* a candidate that parses as a URL, of another scheme, came out absent
C13_WitnessOtherScheme ==
    /\ calc.phase = "once"
    /\ URLhref(calc.candidate).present
    /\ ~BeginsWithHttp(calc.candidate)
    /\ ~calc.once.present

-----------------------------------------------------------------------------
(* getUrlFromEditorByText *)

NoMatch == [found |-> FALSE, linkText |-> <<>>, url |-> <<>>, lastIndex |-> 0]

\* /\[([^\]]+)\]\((https?:\/\/[^)]+)\)/ tried at one position of content: the
\* label runs to the first "]" and the URL to the first ")"
matchLinkAt(content, start) ==
    LET close == indexOfAny(content, {"]"}, start + 1)
        open == close + 2
        urlRest == IF open + 4 <= Len(content) /\ content[open + 4] = "s"
                   THEN open + 5 ELSE open + 4
        urlEnd == indexOfAny(content, {")"}, urlRest + 3)
    IN IF /\ content[start] = "["
          /\ close <= Len(content)
          /\ close > start + 1
          /\ close + 1 <= Len(content)
          /\ content[close + 1] = "("
          /\ open + 3 <= Len(content)
          /\ SubSeq(content, open, open + 3) = Http
          /\ urlRest + 2 <= Len(content)
          /\ SubSeq(content, urlRest, urlRest + 2) = ColonSlashSlash
          /\ urlEnd <= Len(content)
          /\ urlEnd > urlRest + 3
       THEN [found |-> TRUE,
             linkText |-> SubSeq(content, start + 1, close - 1),
             url |-> SubSeq(content, open, urlEnd - 1),
             lastIndex |-> urlEnd + 1]
       ELSE NoMatch

\* linkRegex.exec(content) of the global regex: the leftmost match at or
\* after lastIndex
linkRegexExec(content, lastIndex) ==
    LET starts == {i \in lastIndex..Len(content) : matchLinkAt(content, i).found}
    IN IF starts = {} THEN NoMatch
       ELSE matchLinkAt(content, CHOOSE i \in starts : \A j \in starts : i <= j)

\* mutant: a link whose label equals the text is preferred to the links before it
RECURSIVE matchLoop_ExactFirst(_, _, _)
matchLoop_ExactFirst(content, lastIndex, displayText) ==
    LET match == linkRegexExec(content, lastIndex)
        later == matchLoop_ExactFirst(content, match.lastIndex, displayText)
    IN IF ~match.found THEN NullUrl
       ELSE IF match.linkText = displayText THEN SomeUrl(match.url)
       ELSE IF later.present THEN later
       ELSE IF \/ includes(match.linkText, displayText)
               \/ includes(displayText, match.linkText)
       THEN SomeUrl(match.url)
       ELSE NullUrl

\* the while loop over the matches
RECURSIVE matchLoop(_, _, _)
matchLoop(content, lastIndex, displayText) ==
    LET match == linkRegexExec(content, lastIndex)
    IN IF ~match.found THEN NullUrl
       ELSE IF \/ match.linkText = displayText
               \/ includes(match.linkText, displayText)
               \/ includes(displayText, match.linkText)
       THEN SomeUrl(match.url)
       ELSE matchLoop(content, match.lastIndex, displayText)

getUrlFromEditorByText(element, view) ==
    IF ~view.hasEditor THEN NullUrl
    ELSE LET displayText == trim(element.textContent)
         IN IF displayText = <<>> THEN NullUrl
            ELSE LET url == matchLoop(view.content, 1, displayText)
                 IN IF url.present THEN url
                    ELSE IF startsWith(displayText, Http) THEN normalizeUrl(displayText)
                    ELSE NullUrl

\* Documents are made of items: inline links [label](url) and other text.
MaxItems == 2

UrlU == Http \o ColonSlashSlash \o <<"u">>
UrlV == Https \o ColonSlashSlash \o <<"v">>
LinkLabels == {<<"a", "b">>, <<"a", "b", "c">>, <<"b">>, <<"c", "d">>}
LinkItems == [kind : {"link"}, label : LinkLabels, url : {UrlU, UrlV}]
TextItems == [kind : {"text"}, label : {<<>>},
              url : {<<"a", "b", " ">>,
                     <<"[", "a", "b", "]", "(">> \o Ftp \o ColonSlashSlash \o <<"u", ")">>,
                     <<"[", "a", "b", "]">>}]
Items == LinkItems \cup TextItems

\* the markdown source of an item
SourceOf(item) ==
    IF item.kind = "link" THEN <<"[">> \o item.label \o <<"]", "(">> \o item.url \o <<")">>
    ELSE item.url

RECURSIVE getValue(_)
\* editor.getValue(): the source of the whole document
getValue(items) ==
    IF items = <<>> THEN <<>> ELSE SourceOf(Head(items)) \o getValue(Tail(items))

\* what the hovered element may render
RenderedTexts == {<<"a", "b">>, <<" ", "a", "b", "\n">>, <<"a", "b", "c">>, <<"c">>,
                  <<"z">>, <<" ">>, UrlU}

InitEditorText ==
    /\ PluginAtRest
    /\ \E n \in 1..MaxItems : \E items \in [1..n -> Items] :
       \E text \in RenderedTexts, hasEditor \in BOOLEAN :
          calc = [phase |-> "input",
                  items |-> items,
                  view |-> [hasEditor |-> hasEditor, content |-> getValue(items)],
                  element |-> [textContent |-> text],
                  url |-> NullUrl]

\* findLinkElement asks for the URL of a link-like element inside .cm-editor
ResolveByText ==
    /\ calc.phase = "input"
    /\ calc' = [calc EXCEPT !.phase = "done",
                            !.url = getUrlFromEditorByText(calc.element, calc.view)]
    /\ UNCHANGED <<settings, activePreview, hoverTimeout, cleanupTimeout, lastMouse,
                   timers, domPanels, frames, leaveListeners, lastPanel, pointer,
                   modifierDown, loaded, lastEvent>>

NextEditorText == ResolveByText

SpecEditorText == InitEditorText /\ [][NextEditorText]_vars

\* the URLs of the document's inline links labelled exactly label
UrlsLabelled(label) ==
    {calc.items[i].url : i \in {j \in 1..Len(calc.items) :
                                  calc.items[j].kind = "link" /\ calc.items[j].label = label}}

\* C12: when the document holds an inline link [T](u) and the hovered
\* element's trimmed text is exactly T, the URL returned is that of a link
\* labelled T, never that of a link with another label, wherever it stands.
C12_ExactLabelResolves ==
    (calc.phase = "done" /\ calc.view.hasEditor
        /\ UrlsLabelled(trim(calc.element.textContent)) # {})
    => (calc.url.present
        /\ calc.url.href \in UrlsLabelled(trim(calc.element.textContent)))

-----------------------------------------------------------------------------
(* Properties of the timers, of resolution failures and of the load events *)

\* C14: at most one show timer and at most one hide timer are pending, and a
\* pending one is the one the plugin's field names: arming cancels the
\* previous instance first, so a superseded callback is never left to fire.
C14_SingleTimerPerKind ==
    /\ Cardinality(ShowTimers(St)) <= 1
    /\ \A t \in ShowTimers(St) : t.id = hoverTimeout
    /\ Cardinality(HideTimers(St)) <= 1
    /\ \A t \in HideTimers(St) : t.id = cleanupTimeout

\* the modifier's key-down re-armed the show timer while one was pending
C14_Witness ==
    /\ lastEvent.name = "keydownModifier"
    /\ "show" \in lastEvent.pending
    /\ lastEvent.preview = "none"
    /\ loaded /\ settings.requireModifierKey
    /\ lastMouse \in Links
    /\ \E t \in ShowTimers(St) : t.by = "key" /\ t.remaining = settings.hoverDelay

\* the pointer-over events for which findLinkElement returns null
UnresolvedHovers ==
    {ev \in [target : Places, relatedTarget : Places \cup {"null"}, modifier : BOOLEAN] :
        findLinkElement(ev.target, ev.relatedTarget) = NoLink}

\* C15: a pointer-over for which findLinkElement returns null (no link-like
\* ancestor, no URL resolved, or the related target inside the matched
\* element) leaves the preview, the show timer and the hide timer as they
\* were, also while the preview of another link is visible.
C15_ResolutionFailureNoOp ==
    \A ev \in UnresolvedHovers :
        LET s == handleLinkHover(St, ev)
        IN /\ s.activePreview = activePreview
           /\ s.frames = frames
           /\ s.domPanels = domPanels
           /\ s.hoverTimeout = hoverTimeout
           /\ s.cleanupTimeout = cleanupTimeout
           /\ s.timers = timers

\* the pointer went onto the link-like element without a URL, with the
\* modifier held if required, while the preview of a link was visible and the
\* hide timer pending
C15_Witness ==
    /\ lastEvent.name = "pointermove"
    /\ pointer = "badLink"
    /\ loaded
    /\ settings.requireModifierKey => modifierDown
    /\ activePreview.link = "linkA"
    /\ HideTimers(St) # {}

\* a movement within a link whose show timer is pending
C15_WitnessWithin ==
    /\ lastEvent.name = "pointerwithin"
    /\ settings.requireModifierKey => modifierDown
    /\ ShowTimers(St) # {}
    /\ pointer \in Links

LoadEvents == {"iframeLoad", "iframeError", "settleTimer"}

\* C16: the load events of the embedded view (onerror, onload and the callback
\* onload arms, also when it runs after the panel is gone) neither create,
\* destroy nor replace the preview, and neither arm nor cancel the show or the
\* hide timer; a panel whose load failed stays open.
C16_LoadEventsLeaveLifeCycle ==
    [][lastEvent'.name \in LoadEvents
        => /\ activePreview' = activePreview
           /\ domPanels' = domPanels
           /\ ShowTimers(St') = ShowTimers(St)
           /\ HideTimers(St') = HideTimers(St)
           /\ hoverTimeout' = hoverTimeout
           /\ cleanupTimeout' = cleanupTimeout
           /\ leaveListeners' = leaveListeners]_vars

\* the callback of onload ran after the panel was torn down
C16_Witness ==
    /\ lastEvent.name = "settleTimer"
    /\ lastEvent.preview = "none"

\* a panel whose load failed, still open
C16_WitnessFailed ==
    /\ lastEvent.name = "iframeError"
    /\ \E f \in frames : f.id = activePreview.element
                          /\ f.loading = "Failed to load preview"

\* a panel whose page was revealed
C16_WitnessLoaded ==
    /\ lastEvent.name = "settleTimer"
    /\ \E f \in frames : f.id = activePreview.element /\ f.isLoaded

\* C17: once onunload has run there is no preview and neither timer is
\* pending, and that stays so whatever the pointer does afterwards.
C17_UnloadedStaysIdle ==
    ~loaded => /\ activePreview = NoPreview
               /\ domPanels = {}
               /\ ShowTimers(St) = {}
               /\ HideTimers(St) = {}

\* C18: the show timer and the hide timer are never pending together, and
\* the hide timer is pending only while a preview exists.
C18_TimersExclusive ==
    /\ ~(ShowTimers(St) # {} /\ HideTimers(St) # {})
    /\ HideTimers(St) # {} => activePreview # NoPreview

\* a point lies in a rectangle, its edges included
InsideClosed(point, rect) ==
    /\ rect.left <= point.x /\ point.x <= rect.right
    /\ rect.top <= point.y /\ point.y <= rect.bottom

\* the last known pointer coordinates lie in the panel's or in the origin
\* link's rectangle
PointerInsideEither ==
    \/ InsideClosed(MousePosition(lastMouse), RectOf["panel"])
    \/ InsideClosed(MousePosition(lastMouse), RectOf[activePreview.link])

\* C19: when the hide timer fires while a preview exists and the last known
\* pointer coordinates lie inside the panel's or the origin link's rectangle
\* (edges included), the preview stays as it is and the fire only clears the
\* hide timer, arming none; the preview is destroyed only when the
\* coordinates lie outside both.
C19_FireTimeRecheck ==
    [][(lastEvent'.name = "hideTimer" /\ activePreview # NoPreview)
        => IF PointerInsideEither
           THEN /\ activePreview' = activePreview
                /\ domPanels' = domPanels
                /\ cleanupTimeout' = 0
                /\ HideTimers(St') = {}
                /\ ShowTimers(St') = ShowTimers(St)
           ELSE /\ activePreview' = NoPreview
                /\ domPanels' = {}]_vars

\* the hide timer fired with the pointer on the corner of the origin link,
\* and the preview stayed
C19_Witness ==
    /\ lastEvent.name = "hideTimer"
    /\ lastEvent.preview # "none"
    /\ activePreview # NoPreview
    /\ lastMouse = activePreview.link
    /\ cleanupTimeout = 0
    /\ HideTimers(St) = {}

\* the hide timer fired with the pointer outside both, and the preview went
C19_WitnessDestroyed ==
    /\ lastEvent.name = "hideTimer"
    /\ lastEvent.preview # "none"
    /\ activePreview = NoPreview

\* C20: while the hide timer is pending for a preview, a movement of the
\* pointer into the panel or onto the origin link cancels the hide timer,
\* whatever the settings and whether or not the modifier is held.
C20_ReentryCancelsHide ==
    [][(lastEvent'.name = "pointermove" /\ loaded
          /\ activePreview # NoPreview /\ HideTimers(St) # {}
          /\ pointer' \in {"panel", activePreview.link})
        => (HideTimers(St') = {} /\ cleanupTimeout' = 0
            /\ activePreview' = activePreview)]_vars

-----------------------------------------------------------------------------
(* Properties of supersession and of the modifier key *)

\* C21: a qualifying pointer-over that resolves to a link other than the
\* preview's origin link destroys the old preview and cancels its hide timer
\* in that same event, and arms the show timer for the new link; no panel is
\* attached when a show timer fires.
C21_SupersessionOrder ==
    /\ [][(lastEvent'.name = "pointermove" /\ loaded
             /\ activePreview # NoPreview
             /\ pointer' \in Links /\ pointer' # activePreview.link
             /\ (settings.requireModifierKey => modifierDown))
          => /\ activePreview' = NoPreview
             /\ domPanels' = {}
             /\ HideTimers(St') = {}
             /\ cleanupTimeout' = 0
             /\ \E t \in ShowTimers(St') :
                   /\ ShowTimers(St') = {t}
                   /\ t.link = pointer'
                   /\ t.remaining = settings.hoverDelay]_vars
    /\ [][lastEvent'.name = "showTimer" => domPanels = {}]_vars

\* the pointer went from the origin link, whose preview was visible, onto the
\* other link, and the other link's show timer is the only timer
C21_Witness ==
    /\ lastEvent.name = "pointermove"
    /\ lastEvent.preview = "linkA"
    /\ pointer = "linkB"
    /\ activePreview = NoPreview
    /\ Len(timers) = 1
    /\ \E t \in ShowTimers(St) : t.link = "linkB"

\* C22: a show timer armed by the modifier's key-down obeys the pointer-leave
\* rule of a hover-armed one: when the pointer leaves the link before the
\* fire, the show timer for that link is cancelled, at once or by the hide
\* timer the leave arms.
C22_KeyArmedObeysLeave ==
    [][(lastEvent'.name = "pointermove" /\ loaded
          /\ pointer \in Links /\ pointer' # pointer
          /\ \E t \in ShowTimers(St) : t.by = "key" /\ t.link = pointer)
        => \/ \A t \in ShowTimers(St') : t.link # pointer
           \/ HideTimers(St') # {}]_vars

\* C23: a hide timer armed by the pointer leaving link A does not, when it
\* fires, destroy a preview whose origin is another link B, nor cancel a show
\* timer that was armed for another link B after the pointer left A.
C23_NoStaleHideTimer ==
    [][(lastEvent'.name = "hideTimer" /\ timers[NextDue(St)].link \in Links)
        => /\ (activePreview # NoPreview
                 /\ activePreview.link # timers[NextDue(St)].link)
              => activePreview' = activePreview
           /\ \A i \in 1..Len(timers) :
                 (i > NextDue(St) /\ timers[i].kind = "show"
                    /\ timers[i].link # timers[NextDue(St)].link)
                 => timers[i] \in ShowTimers(St')]_vars


\* C24: a show timer is never pending while an Active Preview exists, so a
\* show timer is armed only in states that have no Active Preview; and a
\* modifier key-down that arrives while an Active Preview exists changes
\* nothing, wherever the pointer is (over a different link included).
C24_NoShowTimerWhilePreview ==
    activePreview # NoPreview
        => /\ ShowTimers(St) = {}
           /\ loaded => keydownListener(St, "Modifier") = St

\* a modifier key-down has arrived while a preview was open and the pointer was
\* last seen over a link other than the preview's origin
C24_Witness ==
    /\ lastEvent.name = "keydownModifier"
    /\ settings.requireModifierKey
    /\ lastEvent.preview \in Links
    /\ activePreview # NoPreview
    /\ lastMouse \in Links
    /\ lastMouse # activePreview.link


\* C25: a repeated modifier key-down (the key is already held: auto-repeat)
\* that arrives while the show timer is pending for the link under the pointer
\* does not postpone the panel: the pending show timer keeps its deadline, so
\* the panel is created one hover delay after the first qualifying event.
C25_RepeatDoesNotPostpone ==
    [][(lastEvent'.name = "keydownModifier" /\ loaded
          /\ settings.requireModifierKey /\ modifierDown
          /\ \E t \in ShowTimers(St) : t.link = lastMouse)
        => \A t \in ShowTimers(St) :
              \E u \in ShowTimers(St') :
                 u.link = t.link /\ u.remaining = t.remaining]_vars


-----------------------------------------------------------------------------
(* findLinkElement and extractUrlFromElement on elements, with the strings
   they read.  The walk from the event target to document.body is a chain of
   elements: chain[1] is the target and chain[i + 1] the parent of chain[i].
   An element is its tag, its class list, its attributes, its text content
   and, for querySelector('a[href]'), the href attribute of its first
   descendant anchor that has one. *)

NullAttr == [present |-> FALSE, value |-> <<>>]
Attr(value) == [present |-> TRUE, value |-> value]

\* the attribute names of extractUrlFromElement, in the order of its array
attributes == <<"data-href", "data-url", "href", "aria-label", "title">>

\* the base URL relative references are resolved against (the application's
\* document)
DocumentBase == <<"a", "p", "p", ":", "/", "/", "o", "b", "s", "i", "d", "i", "a", "n",
                  ".", "m", "d", "/">>

\* an href attribute that is present, resolved: text is its value trimmed and
\* parsed what the URL parser makes of it without a base
resolveHref(value, text, parsed) ==
    LET colon == indexOfAny(text, {":"}, 1)
        slash == indexOfAny(text, {"/"}, 1)
        scheme == toLowerCase(SubSeq(text, 1, colon - 1))
    IN IF colon > Len(text) \/ slash < colon THEN DocumentBase \o text
       ELSE IF scheme \in DOMAIN DefaultPort
       THEN (IF parsed.present THEN parsed.href ELSE value)
       ELSE scheme \o SubSeq(text, colon, Len(text))

\* the href property of an anchor: the href attribute parsed against the
\* document's base and serialized; the attribute itself when it does not parse,
\* and the empty string when there is no attribute
anchorHref(attribute) ==
    IF ~attribute.present THEN <<>>
    ELSE resolveHref(attribute.value, trim(attribute.value),
                     URLhref(trim(attribute.value)))

\* a JavaScript string or null used as a condition
truthy(url) == url.present /\ url.href # <<>>

\* el.matches(LINK_SELECTOR) for the element chain[i]
matches(chain, i) ==
    LET el == chain[i] IN
    \/ el.tag = "a" /\ "external-link" \in el.classList
    \/ el.tag = "a" /\ el.attributes["href"].present
                    /\ startsWith(el.attributes["href"].value, Http)
    \/ el.tag = "span" /\ "external-link" \in el.classList
    \/ "cm-hmd-external-link" \in el.classList
    \/ "cm-underline" \in el.classList
          /\ \E j \in (i + 1)..Len(chain) : "cm-link" \in chain[j].classList
    \/ "cm-url" \in el.classList
    \/ el.attributes["data-href"].present
    \/ el.attributes["data-url"].present

\* mutant: the first attribute that has a value ends the loop, whether its
\* value normalizes or not
RECURSIVE attributeLoop_StopsAtFirstValue(_, _)
attributeLoop_StopsAtFirstValue(element, k) ==
    IF k > Len(attributes) THEN NullUrl
    ELSE LET value == element.attributes[attributes[k]]
         IN IF value.present /\ value.value # <<>> THEN normalizeUrl(value.value)
            ELSE attributeLoop_StopsAtFirstValue(element, k + 1)

RECURSIVE attributeLoop(_, _)
\* one turn of the loop over the attributes: url is what the k-th gave
attributeTurn(element, k, url) ==
    IF truthy(url) THEN url ELSE attributeLoop(element, k + 1)

\* the loop over the element's own attributes, from the k-th on
attributeLoop(element, k) ==
    IF k > Len(attributes) THEN NullUrl
    ELSE LET value == element.attributes[attributes[k]]
         IN attributeTurn(element, k,
                          IF value.present /\ value.value # <<>>
                          THEN normalizeUrl(value.value) ELSE NullUrl)

RECURSIVE ancestorLoop(_, _)
\* one turn of the walk over the ancestors: hrefs[1] is ancestor.href,
\* hrefs[2] the href of the anchor querySelector('a[href]') finds in it
ancestorTurn(chain, j, hrefs) ==
    LET ancestor == chain[j]
        href == IF ancestor.tag = "a" /\ hrefs[1] # <<>> THEN hrefs[1]
                ELSE IF ancestor.classList \cap {"external-link", "cm-link"} # {}
                THEN hrefs[2]
                ELSE <<>>
    IN IF href # <<>> THEN [returned |-> TRUE, url |-> normalizeUrl(href)]
       ELSE ancestorLoop(chain, j + 1)

\* the walk over the ancestors, the element itself first
ancestorLoop(chain, j) ==
    IF j > Len(chain) THEN [returned |-> FALSE, url |-> NullUrl]
    ELSE ancestorTurn(chain, j,
                      [n \in 1..2 |-> anchorHref(IF n = 1 THEN chain[j].attributes["href"]
                                                 ELSE chain[j].anchorInside)])

\* the steps of extractUrlFromElement in their order: own is the result of
\* the attributes, above that of the ancestors, text the trimmed text content
extractSteps(element, own, above, text) ==
    IF element.tag = "a" THEN SomeUrl(anchorHref(element.attributes["href"]))
    ELSE IF truthy(own) THEN own
    ELSE IF above.returned THEN above.url
    ELSE IF text # <<>> THEN normalizeUrl(text)
    ELSE NullUrl

\* extractUrlFromElement(chain[i])
extractUrlFromElement(chain, i) ==
    extractSteps(chain[i], attributeLoop(chain[i], 1), ancestorLoop(chain, i),
                 trim(chain[i].textContent))

NoCandidate == [present |-> FALSE, element |-> 0, url |-> <<>>]

RECURSIVE findLinkElementDom(_, _, _, _, _)
\* what findLinkElement does with an element that matches: byText is the
\* result of the document search (null outside the editor), extracted that
\* of extractUrlFromElement
resolveUrl(chain, i, relatedTarget, inEditor, view, byText, extracted) ==
    LET url == IF truthy(byText) THEN byText ELSE extracted
    IN IF truthy(url) THEN [present |-> TRUE, element |-> i, url |-> url.href]
       ELSE findLinkElementDom(chain, i + 1, relatedTarget, inEditor, view)

\* findLinkElement on a chain, from chain[i] upwards.  relatedTarget is 0
\* (null, or an element outside the chain) or the position of an element of
\* the chain; chain[i] contains it when it stands at or below i.  An element
\* that is no HTMLElement has the tag "svg".
findLinkElementDom(chain, i, relatedTarget, inEditor, view) ==
    IF i > Len(chain) THEN NoCandidate
    ELSE IF chain[i].tag = "svg" \/ ~matches(chain, i)
    THEN findLinkElementDom(chain, i + 1, relatedTarget, inEditor, view)
    ELSE IF relatedTarget # 0 /\ relatedTarget <= i THEN NoCandidate
    ELSE resolveUrl(chain, i, relatedTarget, inEditor, view,
                    IF inEditor THEN getUrlFromEditorByText(chain[i], view)
                    ELSE NullUrl,
                    extractUrlFromElement(chain, i))

\* The elements: spans with every combination of the five attributes (absent,
\* a value that normalizes, a value that does not), anchors with several
\* spellings of href, one element that is no HTMLElement, and the parents a
\* target may have.
MaxChain == 2

UrlD == <<"h", "t", "t", "p", ":", "/", "/", "d">>
UrlE == <<"H", "T", "T", "P", ":", "/", "/", "E">>
UrlH == <<"h", "t", "t", "p", "s", ":", "/", "/", "h">>
UrlL == <<" ", "h", "t", "t", "p", ":", "/", "/", "l">>
UrlT == <<"h", "t", "t", "p", ":", "/", "/", "t", "/">>
UrlI == <<"h", "t", "t", "p", ":", "/", "/", "i">>
UrlP == <<"h", "t", "t", "p", "s", ":", "/", "/", "P", ".", "q">>
UrlR == <<"h", "t", "t", "p", ":", "/", "/", "r", " ">>
MailTo == <<"m", "a", "i", "l", "t", "o", ":", "x">>
NoAttributes == [a \in {"data-href", "data-url", "href", "aria-label", "title"} |-> NullAttr]

SpanElements ==
    {[tag |-> "span", classList |-> classList,
      attributes |-> ("data-href" :> dataHref) @@ ("data-url" :> dataUrl) @@ ("href" :> href)
                        @@ ("aria-label" :> ariaLabel) @@ ("title" :> title),
      textContent |-> textContent, anchorInside |-> anchorInside] :
        classList \in {{}, {"cm-underline"}, {"external-link"}},
        dataHref \in {NullAttr, Attr(UrlD), Attr(<<"x">>)},
        dataUrl \in {NullAttr, Attr(UrlE), Attr(<<>>)},
        href \in {NullAttr, Attr(UrlH), Attr(MailTo)},
        ariaLabel \in {NullAttr, Attr(UrlL), Attr(<<"x">>)},
        title \in {NullAttr, Attr(UrlT), Attr(Ftp \o ColonSlashSlash \o <<"t">>)},
        textContent \in {<<>>, UrlR},
        anchorInside \in {NullAttr, Attr(UrlI)}}

AnchorElements ==
    {[tag |-> "a", classList |-> classList,
      attributes |-> [NoAttributes EXCEPT !["href"] = href, !["data-href"] = dataHref],
      textContent |-> <<"x">>, anchorInside |-> NullAttr] :
        classList \in {{}, {"external-link"}},
        href \in {NullAttr, Attr(UrlP), Attr(MailTo), Attr(<<"p">>),
                  Attr(Http \o ColonSlashSlash \o <<"a", " ", "b">>),
                  Attr(Http \o <<"x">>)},
        dataHref \in {NullAttr, Attr(<<"N">>)}}

SvgElements ==
    {[tag |-> "svg", classList |-> {"cm-url"},
      attributes |-> [NoAttributes EXCEPT !["data-href"] = Attr(UrlD)],
      textContent |-> <<>>, anchorInside |-> NullAttr]}

ParentElements ==
    {[tag |-> "a", classList |-> {"external-link"},
      attributes |-> [NoAttributes EXCEPT !["href"] = Attr(UrlP)],
      textContent |-> <<"x">>, anchorInside |-> NullAttr],
     [tag |-> "a", classList |-> {},
      attributes |-> [NoAttributes EXCEPT !["href"] = Attr(MailTo)],
      textContent |-> <<"x">>, anchorInside |-> NullAttr],
     [tag |-> "span", classList |-> {"cm-link"},
      attributes |-> NoAttributes,
      textContent |-> <<"x">>, anchorInside |-> Attr(UrlI)],
     [tag |-> "span", classList |-> {},
      attributes |-> [NoAttributes EXCEPT !["data-url"] = Attr(UrlE)],
      textContent |-> <<"x">>, anchorInside |-> NullAttr]}

\* a rendered link of the editor: a token span, with or without a data-href
EditorElements ==
    {[tag |-> "span", classList |-> {"cm-url"},
      attributes |-> [NoAttributes EXCEPT !["data-href"] = dataHref],
      textContent |-> textContent, anchorInside |-> NullAttr] :
        dataHref \in {NullAttr, Attr(UrlD)},
        textContent \in RenderedTexts}

NoView == [hasEditor |-> FALSE, content |-> <<>>]

LocateInput(chain, relatedTarget, inEditor, items, view) ==
    [phase |-> "input", chain |-> chain, relatedTarget |-> relatedTarget,
     inEditor |-> inEditor, items |-> items, view |-> view,
     byText |-> NullUrl, extracted |-> NullUrl, found |-> NoCandidate]

InitLocate ==
    /\ PluginAtRest
    /\ \/ \E target \in SpanElements \cup AnchorElements \cup SvgElements :
          \E n \in 0..(MaxChain - 1) : \E parents \in [1..n -> ParentElements] :
          \E relatedTarget \in 0..(n + 1) :
             calc = LocateInput(<<target>> \o parents, relatedTarget, FALSE, <<>>, NoView)
       \/ \E target \in EditorElements :
          \E n \in 1..MaxItems : \E items \in [1..n -> Items] :
          \E hasEditor \in BOOLEAN :
             calc = LocateInput(<<target>>, 0, TRUE, items,
                                [hasEditor |-> hasEditor, content |-> getValue(items)])

\* a mouseover whose target is chain[1]: handleLinkHover asks findLinkElement
Locate ==
    /\ calc.phase = "input"
    /\ calc' = [calc EXCEPT
                  !.phase = "located",
                  !.byText = IF calc.inEditor
                             THEN getUrlFromEditorByText(calc.chain[1], calc.view)
                             ELSE NullUrl,
                  !.found = findLinkElementDom(calc.chain, 1, calc.relatedTarget,
                                               calc.inEditor, calc.view)]
    /\ UNCHANGED <<settings, activePreview, hoverTimeout, cleanupTimeout, lastMouse,
                   timers, domPanels, frames, leaveListeners, lastPanel, pointer,
                   modifierDown, loaded, lastEvent>>

\* findLinkElement asks extractUrlFromElement for the URL of chain[1]
Extract ==
    /\ calc.phase = "input"
    /\ calc' = [calc EXCEPT !.phase = "extracted",
                            !.extracted = extractUrlFromElement(calc.chain, 1)]
    /\ UNCHANGED <<settings, activePreview, hoverTimeout, cleanupTimeout, lastMouse,
                   timers, domPanels, frames, leaveListeners, lastPanel, pointer,
                   modifierDown, loaded, lastEvent>>

NextLocate == Locate \/ Extract

SpecLocate == InitLocate /\ [][NextLocate]_vars

\* C26: every Link Candidate findLinkElement returns carries an absolute URL
\* that begins with http:// or https://, whichever path resolved it.
C26_CandidateIsHttpUrl ==
    (calc.phase = "located" /\ calc.found.present)
        => \/ startsWith(calc.found.url, Http \o ColonSlashSlash)
           \/ startsWith(calc.found.url, Https \o ColonSlashSlash)


\* the positions of the document's inline links whose label equals text,
\* contains it or is contained in it
OverlappingLinks(text) ==
    {j \in 1..Len(calc.items) :
        /\ calc.items[j].kind = "link"
        /\ \/ calc.items[j].label = text
           \/ includes(calc.items[j].label, text)
           \/ includes(text, calc.items[j].label)}

\* C27: for an element of the editor with rendered text, getUrlFromEditorByText
\* returns the URL of the first inline link in document order whose label
\* equals the trimmed text, contains it or is contained in it, an exact match
\* further down notwithstanding; when no link matches and the text does not
\* start with http it returns absent, and findLinkElement then answers with
\* what extractUrlFromElement finds on the same element.
C27_TextResolutionOrder ==
    LET text == trim(calc.chain[1].textContent)
        links == OverlappingLinks(text)
        first == CHOOSE j \in links : \A k \in links : j <= k
        url == extractUrlFromElement(calc.chain, 1)
    IN (calc.phase = "located" /\ calc.inEditor /\ calc.view.hasEditor /\ text # <<>>)
        => IF links # {}
           THEN calc.byText = SomeUrl(calc.items[first].url)
           ELSE ~startsWith(text, Http)
                  => /\ ~calc.byText.present
                     /\ calc.found = IF truthy(url)
                                     THEN [present |-> TRUE, element |-> 1, url |-> url.href]
                                     ELSE NoCandidate

\* the first link's label only contains the rendered text, the second link's
\* label equals it, and the first link's URL is returned
C27_Witness ==
    /\ calc.phase = "located" /\ calc.inEditor /\ calc.view.hasEditor
    /\ Len(calc.items) = 2
    /\ calc.items[1].kind = "link" /\ calc.items[2].kind = "link"
    /\ calc.items[2].label = trim(calc.chain[1].textContent)
    /\ calc.items[1].label # calc.items[2].label
    /\ calc.items[1].url # calc.items[2].url
    /\ calc.byText = SomeUrl(calc.items[1].url)

\* no link matches, and the candidate comes from the element's data-href
C27_WitnessFallback ==
    /\ calc.phase = "located" /\ calc.inEditor /\ calc.view.hasEditor
    /\ \E j \in 1..Len(calc.items) : calc.items[j].kind = "link"
    /\ ~calc.byText.present
    /\ calc.found.present
    /\ calc.found.url = normalizeUrl(UrlD).href


\* the positions, in the order data-href, data-url, href, aria-label, title,
\* of the element's attributes whose value normalizes
NormalizingAttributes(element) ==
    {k \in 1..Len(attributes) :
        /\ element.attributes[attributes[k]].present
        /\ normalizeUrl(element.attributes[attributes[k]].value).present}

\* C28: for an element that is no anchor, extractUrlFromElement returns the
\* normalized value of the first of data-href, data-url, href, aria-label,
\* title whose value normalizes, the attributes before it being missing or
\* failing; what the ancestors and the rendered text hold decides the result
\* only when no attribute normalizes.
C28_AttributePriority ==
    LET element == calc.chain[1]
        yielding == NormalizingAttributes(element)
        first == CHOOSE k \in yielding : \A j \in yielding : k <= j
    IN (calc.phase = "extracted" /\ element.tag = "span")
        => IF yielding # {}
           THEN calc.extracted = normalizeUrl(element.attributes[attributes[first]].value)
           ELSE calc.extracted.present
                  => \/ calc.extracted = normalizeUrl(element.textContent)
                     \/ \E j \in 1..Len(calc.chain) :
                           \/ calc.extracted
                                 = normalizeUrl(anchorHref(calc.chain[j].attributes["href"]))
                           \/ calc.extracted
                                 = normalizeUrl(anchorHref(calc.chain[j].anchorInside))

\* data-href and href have values that fail, data-url is empty, aria-label and
\* title both normalize, and the element has an anchor above it and a URL as
\* its text: the result is aria-label's URL
C28_Witness ==
    /\ calc.phase = "extracted"
    /\ Len(calc.chain) = 2
    /\ calc.chain[1].tag = "span"
    /\ calc.chain[1].attributes["data-href"] = Attr(<<"x">>)
    /\ calc.chain[1].attributes["data-url"] = Attr(<<>>)
    /\ calc.chain[1].attributes["href"] = Attr(MailTo)
    /\ calc.chain[1].attributes["aria-label"] = Attr(UrlL)
    /\ calc.chain[1].attributes["title"] = Attr(UrlT)
    /\ calc.chain[1].textContent = UrlR
    /\ calc.chain[2].tag = "a"
    /\ calc.chain[2].attributes["href"] = Attr(UrlP)
    /\ calc.extracted = normalizeUrl(UrlL)

\* no attribute normalizes and the URL comes from the anchor above the element
C28_WitnessAncestor ==
    /\ calc.phase = "extracted"
    /\ Len(calc.chain) = 2
    /\ calc.chain[1].tag = "span"
    /\ calc.chain[1].attributes["data-href"] = Attr(<<"x">>)
    /\ NormalizingAttributes(calc.chain[1]) = {}
    /\ calc.chain[1].textContent = UrlR
    /\ calc.extracted = normalizeUrl(UrlP)


-----------------------------------------------------------------------------
(* The settings page: the text fields and the toggles of
   LinkPreviewSettingTab.display, each edit with the save it makes.  The
   numbers are JavaScript numbers: NaN, or a sign, an integer part and the
   digits of a fraction. *)

NaN == [nan |-> TRUE, negative |-> FALSE, int |-> 0, frac |-> <<>>]
NumberOf(n) == [nan |-> FALSE, negative |-> FALSE, int |-> n, frac |-> <<>>]

RECURSIVE stripTrailingZeros(_)
stripTrailingZeros(digits) ==
    IF digits # <<>> /\ digits[Len(digits)] = "0"
    THEN stripTrailingZeros(SubSeq(digits, 1, Len(digits) - 1))
    ELSE digits

\* Number(value) of a string: white space is stripped, the empty string is 0,
\* an optionally signed decimal literal is its value, anything else is NaN
\* (the alphabet has no exponent, no hexadecimal digits and no Infinity)
Number(value) ==
    LET text == trim(value)
        signed == text # <<>> /\ text[1] \in {"-", "+"}
        body == IF signed THEN Tail(text) ELSE text
        dot == indexOfAny(body, {"."}, 1)
        intPart == SubSeq(body, 1, dot - 1)
        fracPart == SubSeq(body, dot + 1, Len(body))
    IN IF text = <<>> THEN NumberOf(0)
       ELSE IF \/ intPart = <<>> /\ fracPart = <<>>
               \/ \E k \in 1..Len(intPart) : intPart[k] \notin Digits
               \/ \E k \in 1..Len(fracPart) : fracPart[k] \notin Digits
       THEN NaN
       ELSE [nan |-> FALSE, negative |-> text[1] = "-",
             int |-> parseInt(intPart), frac |-> stripTrailingZeros(fracPart)]

isNaN(number) == number.nan

\* numValue >= 0 (false for NaN, true for -0)
greaterOrEqualZero(number) ==
    /\ ~number.nan
    /\ ~number.negative \/ (number.int = 0 /\ number.frac = <<>>)

\* what a text field may hold after a keystroke
EditTexts == {<<>>, <<"0">>, <<"5">>, <<"1", "0">>, <<" ", "5", " ">>, <<"0", "5">>,
              <<"-", "5">>, <<"-">>, <<"1", ".", "5">>, <<".", "5">>, <<"5", ".">>,
              <<"5", ".", "0">>, <<"5", "x">>, <<"x">>}

\* calc holds the stored data and the last edit: its field, its text and
\* whether it was saved
Edited(stored, field, text, saved) ==
    [phase |-> "settings", stored |-> stored, field |-> field, text |-> text,
     saved |-> saved]

InitSettings ==
    /\ settings = [maxPreviewHeight |-> NumberOf(DefaultMaxPreviewHeight),
                   maxPreviewWidth |-> NumberOf(DefaultMaxPreviewWidth),
                   hoverDelay |-> NumberOf(DefaultHoverDelay),
                   requireModifierKey |-> FALSE,
                   closeOnModifierRelease |-> TRUE]
    /\ calc = Edited(settings, "none", <<>>, FALSE)
    /\ activePreview = NoPreview
    /\ hoverTimeout = 0
    /\ cleanupTimeout = 0
    /\ lastMouse = "empty"
    /\ timers = <<>>
    /\ domPanels = {}
    /\ frames = {}
    /\ leaveListeners = {}
    /\ lastPanel = 0
    /\ pointer = "empty"
    /\ modifierDown = FALSE
    /\ loaded = TRUE
    /\ lastEvent = Event("onload")

\* the onChange of the Hover delay field
EditHoverDelay(value) ==
    LET numValue == Number(value) IN
    /\ IF ~isNaN(numValue) /\ greaterOrEqualZero(numValue)
       THEN /\ settings' = [settings EXCEPT !.hoverDelay = numValue]
            /\ calc' = Edited(settings', "hoverDelay", value, TRUE)
       ELSE /\ settings' = settings
            /\ calc' = Edited(calc.stored, "hoverDelay", value, FALSE)
    /\ UNCHANGED <<activePreview, hoverTimeout, cleanupTimeout, lastMouse, timers,
                   domPanels, frames, leaveListeners, lastPanel, pointer,
                   modifierDown, loaded, lastEvent>>

\* the onChange of the Maximum height field
EditMaxPreviewHeight(value) ==
    /\ settings' = [settings EXCEPT !.maxPreviewHeight = Number(value)]
    /\ calc' = Edited(settings', "maxPreviewHeight", value, TRUE)
    /\ UNCHANGED <<activePreview, hoverTimeout, cleanupTimeout, lastMouse, timers,
                   domPanels, frames, leaveListeners, lastPanel, pointer,
                   modifierDown, loaded, lastEvent>>

\* the onChange of the Maximum width field
EditMaxPreviewWidth(value) ==
    /\ settings' = [settings EXCEPT !.maxPreviewWidth = Number(value)]
    /\ calc' = Edited(settings', "maxPreviewWidth", value, TRUE)
    /\ UNCHANGED <<activePreview, hoverTimeout, cleanupTimeout, lastMouse, timers,
                   domPanels, frames, leaveListeners, lastPanel, pointer,
                   modifierDown, loaded, lastEvent>>

\* the onChange of the Require modifier key toggle
ToggleRequireModifierKey ==
    /\ settings' = [settings EXCEPT !.requireModifierKey = ~@]
    /\ calc' = Edited(settings', "requireModifierKey", <<>>, TRUE)
    /\ UNCHANGED <<activePreview, hoverTimeout, cleanupTimeout, lastMouse, timers,
                   domPanels, frames, leaveListeners, lastPanel, pointer,
                   modifierDown, loaded, lastEvent>>

\* the onChange of the Close on key release toggle (disabled while no modifier
\* key is required)
ToggleCloseOnModifierRelease ==
    /\ settings.requireModifierKey
    /\ settings' = [settings EXCEPT !.closeOnModifierRelease = ~@]
    /\ calc' = Edited(settings', "closeOnModifierRelease", <<>>, TRUE)
    /\ UNCHANGED <<activePreview, hoverTimeout, cleanupTimeout, lastMouse, timers,
                   domPanels, frames, leaveListeners, lastPanel, pointer,
                   modifierDown, loaded, lastEvent>>

NextSettings ==
    \/ \E value \in EditTexts : EditHoverDelay(value)
    \/ \E value \in EditTexts : EditMaxPreviewHeight(value)
    \/ \E value \in EditTexts : EditMaxPreviewWidth(value)
    \/ ToggleRequireModifierKey
    \/ ToggleCloseOnModifierRelease

SpecSettings == InitSettings /\ [][NextSettings]_vars

\* the number is an integer that is not negative, resp. is positive
NonNegativeInteger(number) ==
    ~number.nan /\ ~number.negative /\ number.frac = <<>>
PositiveInteger(number) ==
    NonNegativeInteger(number) /\ number.int > 0

\* C29: whatever was typed into the settings page, the hover delay in the
\* settings and in the stored data is a non-negative integer and the maximum
\* width and height are positive integers, and an edit whose text denotes no
\* such value is not saved.
C29_SettingsValid ==
    calc.phase = "settings"
        => /\ \A data \in {settings, calc.stored} :
                 /\ NonNegativeInteger(data.hoverDelay)
                 /\ PositiveInteger(data.maxPreviewWidth)
                 /\ PositiveInteger(data.maxPreviewHeight)
           /\ (calc.field \in {"maxPreviewWidth", "maxPreviewHeight"}
                 /\ ~PositiveInteger(Number(calc.text))) => ~calc.saved
           /\ (calc.field = "hoverDelay" /\ ~NonNegativeInteger(Number(calc.text)))
                 => ~calc.saved

=============================================================================
